---------------------------- MODULE Spec2Model ----------------------------
(***************************************************************************)
(* A model of InputGroup (src/src/state/InputGroup.ts): a composite tree   *)
(* of form inputs with derived views (structure, inputs, value,            *)
(* inputValue, normalizedInputValue, flattedInputs, flattenedStructure)    *)
(* and the batch operations reset and confirm.                             *)
(*                                                                         *)
(* Trees.  A node of an input structure and a node of a value structure    *)
(* are records of one layout, [k, id, keys, kids]:                         *)
(*   k = "leaf"   an Input, id its identity                                *)
(*   k = "group"  an InputGroup, id its identity                           *)
(*   k = "atom"   a plain value, id the value (0 is falsy, as in JS)       *)
(*   k = "undef"  JavaScript's undefined                                   *)
(*   k = "seq"    an array, kids its elements in order                     *)
(*   k = "map"    an object, keys its own enumerable keys in for-in        *)
(*                (insertion) order, kids[i] the value at keys[i]          *)
(***************************************************************************)
EXTENDS Integers, Sequences, FiniteSets, TLC

\* Bounds of the model: the nodes of a generated structure or value, and the
\* largest plain value.
MaxNodes == 3
MaxVal == 1

Leaves == {1, 2}
Groups == {1, 2}
Keys == {"a", "b"}
Values == 0 .. MaxVal

Range(s) == { s[i] : i \in DOMAIN s }

Leaf(l) == [k |-> "leaf", id |-> l, keys |-> << >>, kids |-> << >>]
Group(g) == [k |-> "group", id |-> g, keys |-> << >>, kids |-> << >>]
Atom(v) == [k |-> "atom", id |-> v, keys |-> << >>, kids |-> << >>]
Undef == [k |-> "undef", id |-> 0, keys |-> << >>, kids |-> << >>]
Arr(kids) == [k |-> "seq", id |-> 0, keys |-> << >>, kids |-> kids]
Obj(keys, kids) == [k |-> "map", id |-> 0, keys |-> keys, kids |-> kids]

\* Sequences of n distinct keys, in every insertion order.
KeySeqs(n) == { ks \in [1 .. n -> Keys] : \A i, j \in 1 .. n : ks[i] = ks[j] => i = j }

Min(a, b) == IF a <= b THEN a ELSE b

RECURSIVE TreesOfSize(_, _), ForestsOfSize(_, _)
\* The trees of exactly n nodes over the given set of childless nodes.
TreesOfSize(n, atoms) ==
  IF n = 1 THEN atoms \cup {Arr(<< >>), Obj(<< >>, << >>)}
  ELSE LET fs == ForestsOfSize(n - 1, atoms)
       IN  { Arr(f) : f \in fs }
             \cup UNION { { Obj(ks, f) : ks \in KeySeqs(Len(f)) } : f \in fs }
\* The sequences of trees of n nodes in all (n >= 0).
ForestsOfSize(n, atoms) ==
  IF n = 0 THEN { << >> }
  ELSE UNION { { <<t>> \o f : t \in TreesOfSize(j, atoms),
                              f \in ForestsOfSize(n - j, atoms) } : j \in 1 .. n }

TreesUpTo(n, atoms) == UNION { TreesOfSize(j, atoms) : j \in 1 .. n }

(***************************************************************************)
(* State.                                                                  *)
(*   _inputs   what each group's constructor stored: a constant structure  *)
(*             (fn = FALSE, tree the structure) or a function              *)
(*             (fn = TRUE; calling it returns source[g])                   *)
(*   source    the observable data a function-valued description reads     *)
(*   leaf      each Input's confirmed value and live input value           *)
(*   privateInputGroup  per Input, the set of groups that list it          *)
(*   lastFlat  per group, the flattedInputs array computed last            *)
(*   op        the call in progress: name, group, argument, failing leaves *)
(*   ret       what the call returned                                      *)
(*   log       the Input.reset / Input.confirm calls the call made         *)
(*   outcome   "ok", or "threw" when an Input's operation threw            *)
(*   advanced  whether the call moved the focus to the next field          *)
(***************************************************************************)
VARIABLES _inputs, source, leaf, privateInputGroup, lastFlat, op, ret, log, outcome,
          advanced

vars == <<_inputs, source, leaf, privateInputGroup, lastFlat, op, ret, log, outcome,
          advanced>>

\* An Input's default value (options of Input; constant per leaf).
Default(l) == l % (MaxVal + 1)

\* An Input's normalizer.
Normalize(v) == IF v = MaxVal THEN 0 ELSE v

\* input[valueProp] for valueProp in "value", "inputValue", "normalizedInputValue".
LeafAttr(l, valueProp) ==
  CASE valueProp = "value" -> leaf[l].value
    [] valueProp = "inputValue" -> leaf[l].inputValue
    [] valueProp = "normalizedInputValue" -> Normalize(leaf[l].inputValue)

\* What a constructor stores for a constant structure and for a function.
Constant(t) == [fn |-> FALSE, tree |-> t]
Function == [fn |-> TRUE, tree |-> Undef]

\* The structures the descriptions of SpecReshape give at construction.
InitShape(g) == IF g = 1 THEN Arr(<<Leaf(1), Group(2)>>) ELSE Arr(<<Leaf(1), Leaf(2)>>)

\* Mutant: the function's first result is kept and never asked for again.
structureMemo(g) == IF _inputs[g].fn THEN InitShape(g) ELSE _inputs[g].tree

\* get structure(): typeof _inputs === "function" ? _inputs() : _inputs
structure(g) == IF _inputs[g].fn THEN source[g] ELSE _inputs[g].tree

RECURSIVE unwrapGroups(_)
\* unwrapGroups: a group is replaced by its own collapsed inputs, arrays and
\* objects are rebuilt with their elements unwrapped.  inputs.inputs of a group
\* is unwrapGroups(inputs.structure).
unwrapGroups(inputs) ==
  IF inputs.k = "group" THEN unwrapGroups(unwrapGroups(structure(inputs.id)))
  ELSE IF inputs.k = "leaf" THEN inputs
  ELSE IF inputs.k = "seq"
    THEN Arr([i \in 1 .. Len(inputs.kids) |-> unwrapGroups(inputs.kids[i])])
  ELSE Obj(inputs.keys, [i \in 1 .. Len(inputs.keys) |-> unwrapGroups(inputs.kids[i])])

\* get inputs()
inputs(g) == unwrapGroups(structure(g))

RECURSIVE getValueFromShape(_, _)
getValueFromShape(shape, valueProp) ==
  IF shape.k = "leaf" THEN Atom(LeafAttr(shape.id, valueProp))
  ELSE IF shape.k = "seq"
    THEN Arr([i \in 1 .. Len(shape.kids) |-> getValueFromShape(shape.kids[i], valueProp)])
  ELSE Obj(shape.keys,
           [i \in 1 .. Len(shape.keys) |-> getValueFromShape(shape.kids[i], valueProp)])

\* Mutant: inputValue reads the confirmed values.
inputValueConfirmed(g) == getValueFromShape(inputs(g), "value")

\* get value(), get inputValue(), get normalizedInputValue()
value(g) == getValueFromShape(inputs(g), "value")
inputValue(g) == getValueFromShape(inputs(g), "inputValue")
normalizedInputValue(g) == getValueFromShape(inputs(g), "normalizedInputValue")

RECURSIVE Concat(_)
\* The concatenation of a sequence of sequences.
Concat(ss) == IF ss = << >> THEN << >> ELSE Head(ss) \o Concat(Tail(ss))

RECURSIVE flattenInputs(_)
\* flattenInputs: the buffer the walk fills, in the order of its pushes.
flattenInputs(shape) ==
  IF shape.k = "leaf" THEN <<shape>>
  ELSE Concat([i \in 1 .. Len(shape.kids) |-> flattenInputs(shape.kids[i])])

\* get flattedInputs()
flattedInputs(g) == Arr(flattenInputs(inputs(g)))

RECURSIVE flattenStructure(_)
\* Mutant: the walk goes on into a nested group.
flattenStructureInto(node) ==
  IF node.k = "leaf" THEN <<node>>
  ELSE IF node.k = "group" THEN flattenStructure(structure(node.id))
  ELSE Concat([i \in 1 .. Len(node.kids) |-> flattenStructure(node.kids[i])])

flattenStructure(node) ==
  IF node.k = "group" \/ node.k = "leaf" THEN <<node>>
  ELSE Concat([i \in 1 .. Len(node.kids) |-> flattenStructure(node.kids[i])])

\* get flattenedStructure()
flattenedStructure(g) == Arr(flattenStructure(structure(g)))

\* JavaScript truthiness of a value: undefined and 0 are falsy; arrays and
\* objects (empty ones too) and the other numbers are truthy.
Falsy(v) == v.k = "undef" \/ (v.k = "atom" /\ v.id = 0)

\* value[index] for the array index of the i-th element (i counts from 1).
GetIndex(v, i) == IF v.k = "seq" /\ i <= Len(v.kids) THEN v.kids[i] ELSE Undef

\* value[key] for an object key.
GetKey(v, key) ==
  IF v.k = "map" /\ key \in Range(v.keys)
  THEN v.kids[CHOOSE i \in 1 .. Len(v.keys) : v.keys[i] = key]
  ELSE Undef

\* value && value[index]
AndIndex(v, i) == IF Falsy(v) THEN v ELSE GetIndex(v, i)
\* value && value[key]
AndKey(v, key) == IF Falsy(v) THEN v ELSE GetKey(v, key)

\* One call of an Input's operation: inputs.reset({ value }) has no other
\* option; inputs.confirm({ value }) passes no "next", which reads as
\* undefined (falsy) in Input.confirm.
ResetCall(l, v) == [fn |-> "reset", leaf |-> l, value |-> v, next |-> FALSE]
\* Mutant: the group's confirm asks for the next field.
ConfirmCallNext(l, v) == [fn |-> "confirm", leaf |-> l, value |-> v, next |-> TRUE]

ConfirmCall(l, v) == [fn |-> "confirm", leaf |-> l, value |-> v, next |-> FALSE]

RECURSIVE resetShape(_, _)
\* Mutant: an object's inputs are given the object's value, not value[key].
resetShapeNoKey(node, v) ==
  IF node.k = "leaf" THEN <<ResetCall(node.id, v)>>
  ELSE IF node.k = "group" THEN resetShape(structure(node.id), v)
  ELSE IF node.k = "seq"
    THEN Concat([i \in 1 .. Len(node.kids) |-> resetShape(node.kids[i], AndIndex(v, i))])
  ELSE Concat([i \in 1 .. Len(node.keys) |-> resetShape(node.kids[i], v)])

\* Mutant: a nested group is not entered.
resetShapeNoGroup(node, v) ==
  IF node.k = "leaf" THEN <<ResetCall(node.id, v)>>
  ELSE IF node.k = "group" THEN << >>
  ELSE IF node.k = "seq"
    THEN Concat([i \in 1 .. Len(node.kids) |-> resetShape(node.kids[i], AndIndex(v, i))])
  ELSE Concat([i \in 1 .. Len(node.keys) |->
                 resetShape(node.kids[i], AndKey(v, node.keys[i]))])

\* Mutant: an input is reset only where the value tree has a value for it.
resetShapeByValue(node, v) ==
  IF node.k = "leaf" THEN IF v.k = "undef" THEN << >> ELSE <<ResetCall(node.id, v)>>
  ELSE IF node.k = "group" THEN resetShape(structure(node.id), v)
  ELSE IF node.k = "seq"
    THEN Concat([i \in 1 .. Len(node.kids) |-> resetShape(node.kids[i], AndIndex(v, i))])
  ELSE Concat([i \in 1 .. Len(node.keys) |->
                 resetShape(node.kids[i], AndKey(v, node.keys[i]))])

\* resetShape: the Input.reset calls of the walk, in order.
resetShape(node, v) ==
  IF node.k = "leaf" THEN <<ResetCall(node.id, v)>>
  ELSE IF node.k = "group" THEN resetShape(structure(node.id), v)
  ELSE IF node.k = "seq"
    THEN Concat([i \in 1 .. Len(node.kids) |-> resetShape(node.kids[i], AndIndex(v, i))])
  ELSE Concat([i \in 1 .. Len(node.keys) |->
                 resetShape(node.kids[i], AndKey(v, node.keys[i]))])

RECURSIVE confirmShape(_, _)
\* confirmShape: the Input.confirm calls of the walk, in order.
confirmShape(node, v) ==
  IF node.k = "leaf" THEN <<ConfirmCall(node.id, v)>>
  ELSE IF node.k = "group" THEN confirmShape(structure(node.id), v)
  ELSE IF node.k = "seq"
    THEN Concat([i \in 1 .. Len(node.kids) |-> confirmShape(node.kids[i], AndIndex(v, i))])
  ELSE Concat([i \in 1 .. Len(node.keys) |->
                 confirmShape(node.kids[i], AndKey(v, node.keys[i]))])

(***************************************************************************)
(* The Input collaborator (Input.ts is not among the sources; its contract *)
(* is the one the specification gives the Leaf).                           *)
(***************************************************************************)
\* Input.reset({ value }): to the value given, or to the default.
LeafReset(st, l, v) ==
  IF v.k = "atom" THEN [value |-> v.id, inputValue |-> v.id]
  ELSE [value |-> Default(l), inputValue |-> Default(l)]

\* Input.confirm({ value, next }): takes the value given as the input value,
\* and confirms the normalized input value.
LeafConfirm(st, l, v) ==
  LET iv == IF v.k = "atom" THEN v.id ELSE st.inputValue
  IN  [value |-> Normalize(iv), inputValue |-> iv]

LeafApply(st, c) ==
  IF c.fn = "reset" THEN LeafReset(st, c.leaf, c.value) ELSE LeafConfirm(st, c.leaf, c.value)

RECURSIVE RunCalls(_, _, _)
\* Mutant: an exception of a leaf is caught and the walk goes on.
RunCallsCatching(st, calls, bad) ==
  IF calls = << >> THEN [leaf |-> st, log |-> << >>, outcome |-> "ok", advanced |-> FALSE]
  ELSE LET c == Head(calls)
           r == RunCalls(IF c.leaf \in bad THEN st ELSE [st EXCEPT ![c.leaf] = LeafApply(@, c)],
                         Tail(calls), bad)
       IN  [r EXCEPT !.log = <<c>> \o @, !.advanced = @ \/ c.next]

\* The calls of a walk made in order on the leaf states st.  An operation of
\* a leaf in bad throws: resetShape and confirmShape have no try/catch, and
\* Array.map and for-in stop at an exception, so the walk ends there.  The
\* arguments of the calls do not depend on the leaf states, so the walk's calls
\* are computed first and then made.
RunCalls(st, calls, bad) ==
  IF calls = << >> THEN [leaf |-> st, log |-> << >>, outcome |-> "ok", advanced |-> FALSE]
  ELSE LET c == Head(calls)
       IN  IF c.leaf \in bad
           THEN [leaf |-> st, log |-> <<c>>, outcome |-> "threw", advanced |-> FALSE]
           ELSE LET r == RunCalls([st EXCEPT ![c.leaf] = LeafApply(@, c)], Tail(calls), bad)
                IN  [r EXCEPT !.log = <<c>> \o @, !.advanced = @ \/ c.next]

(***************************************************************************)
(* The lookup of the constructor (utils/lookup.ts and utils/weakProp.ts    *)
(* are not among the sources; the contract is the specification's          *)
(* Reverse-Index Engine).                                                  *)
(***************************************************************************)
\* Mutant: the constructor gives the lookup the structure's items.
lookupSourceStructure(g) == flattenedStructure(g)

\* The items the constructor gives createLookup: () => this.flattedInputs
lookupSource(g) == flattedInputs(g)

\* The group is recorded with every item it holds now and removed from every
\* item it holds no longer.
createLookup(index, g, items) ==
  [l \in Leaves |-> IF Leaf(l) \in Range(items.kids) THEN index[l] \cup {g}
                    ELSE index[l] \ {g}]

(***************************************************************************)
(* The values a caller may pass to reset and confirm: the parameter's type *)
(* InferInputGroupValue<TInputs> mirrors the collapsed inputs, an Input's  *)
(* place holding a plain value; any place may be undefined (a partial      *)
(* value), and an object or array may hold more than the inputs have.      *)
(***************************************************************************)
RECURSIVE ValueOfInputShape(_, _)
ValueOfInputShape(shape, v) ==
  \/ v.k = "undef"
  \/ /\ shape.k = "leaf"
     /\ v.k = "atom"
  \/ /\ shape.k = "seq"
     /\ v.k = "seq"
     /\ \A i \in 1 .. Min(Len(shape.kids), Len(v.kids)) :
          ValueOfInputShape(shape.kids[i], v.kids[i])
  \/ /\ shape.k = "map"
     /\ v.k = "map"
     /\ \A i \in 1 .. Len(shape.keys) :
          ValueOfInputShape(shape.kids[i], GetKey(v, shape.keys[i]))

RECURSIVE KeysAscend(_)
\* Value objects are listed once, whatever the order their keys were set in:
\* value[key] does not depend on it.
KeysAscend(v) ==
  /\ v.keys \in {<< >>, <<"a">>, <<"b">>, <<"a", "b">>}
  /\ \A i \in 1 .. Len(v.kids) : KeysAscend(v.kids[i])

ValueTrees ==
  { v \in TreesUpTo(MaxNodes, {Atom(x) : x \in Values} \cup {Undef}) : KeysAscend(v) }

InferInputGroupValue(g) == { v \in ValueTrees : ValueOfInputShape(inputs(g), v) }

\* The leaves whose operation may throw in one batch: none, or one of them.
Failing == {{}} \cup { {l} : l \in Leaves }

NoOp == [name |-> "none", g |-> 0, arg |-> Undef, bad |-> {}]
Call(name, g, arg, bad) == [name |-> name, g |-> g, arg |-> arg, bad |-> bad]

(***************************************************************************)
(* Operations.  Each is one call on an idle group.                         *)
(***************************************************************************)
\* Mutant: reading a view confirms the pending input of every leaf.
ReadConfirming(name, g, result) ==
  /\ op.name = "none"
  /\ op' = Call(name, g, Undef, {})
  /\ ret' = result
  /\ log' = << >>
  /\ outcome' = "ok"
  /\ advanced' = FALSE
  /\ leaf' = [l \in Leaves |-> LeafConfirm(leaf[l], l, Undef)]
  /\ UNCHANGED <<_inputs, source, privateInputGroup, lastFlat>>

\* A call that reads a derived view and changes nothing.
Read(name, g, result) ==
  /\ op.name = "none"
  /\ op' = Call(name, g, Undef, {})
  /\ ret' = result
  /\ log' = << >>
  /\ outcome' = "ok"
  /\ advanced' = FALSE
  /\ UNCHANGED <<_inputs, source, leaf, privateInputGroup, lastFlat>>

GetStructure(g) == Read("structure", g, structure(g))
GetInputs(g) == Read("inputs", g, inputs(g))
GetValue(g) == Read("value", g, value(g))
GetInputValue(g) == Read("inputValue", g, inputValue(g))
GetNormalizedInputValue(g) == Read("normalizedInputValue", g, normalizedInputValue(g))
GetFlattenedStructure(g) == Read("flattenedStructure", g, flattenedStructure(g))

\* Reading flattedInputs recomputes it, and the constructor's lookup follows.
GetFlattedInputs(g) ==
  /\ op.name = "none"
  /\ op' = Call("flattedInputs", g, Undef, {})
  /\ ret' = flattedInputs(g)
  /\ lastFlat' = [lastFlat EXCEPT ![g] = flattedInputs(g)]
  /\ privateInputGroup' = createLookup(privateInputGroup, g, lookupSource(g))
  /\ log' = << >>
  /\ outcome' = "ok"
  /\ advanced' = FALSE
  /\ UNCHANGED <<_inputs, source, leaf>>

\* The effect of a batch: the calls of the walk, made until one throws.
Batch(name, g, v, bad, calls) ==
  LET r == RunCalls(leaf, calls, bad)
  IN  /\ op.name = "none"
      /\ op' = Call(name, g, v, bad)
      /\ leaf' = r.leaf
      /\ log' = r.log
      /\ outcome' = r.outcome
      /\ advanced' = r.advanced
      /\ ret' = Undef
      /\ UNCHANGED <<_inputs, source, privateInputGroup, lastFlat>>

\* reset(args): resetShape(this.structure, args && args.value)
Reset(g, v, bad) == Batch("reset", g, v, bad, resetShape(structure(g), v))

\* confirm(args): confirmShape(this.structure, args && args.value)
Confirm(g, v, bad) == Batch("confirm", g, v, bad, confirmShape(structure(g), v))

\* The data behind a function-valued description changes.
Reshape(g, t) ==
  /\ op.name = "none"
  /\ _inputs[g].fn
  /\ source[g] # t
  /\ source' = [source EXCEPT ![g] = t]
  /\ UNCHANGED <<_inputs, leaf, privateInputGroup, lastFlat, op, ret, log, outcome, advanced>>

\* The call returns; its arguments and result are the caller's from here on.
Return ==
  /\ op.name # "none"
  /\ op' = NoOp
  /\ ret' = Undef
  /\ log' = << >>
  /\ outcome' = "ok"
  /\ advanced' = FALSE
  /\ UNCHANGED <<_inputs, source, leaf, privateInputGroup, lastFlat>>

(***************************************************************************)
(* Spec: one call of one operation, on structures, leaf states and         *)
(* arguments drawn from the bounded sets.  Group 1, whose description is a *)
(* function, may nest group 2, whose description is a constant.            *)
(***************************************************************************)
\* { a: input1, b: { a: input2 } }, the structure of the partial reset.
PartialExample == Obj(<<"a", "b">>, <<Leaf(1), Obj(<<"a">>, <<Leaf(2)>>)>>)
\* { a: [ { b: input1 }, input2 ] }, three containers deep.
DeepExample == Obj(<<"a">>, <<Arr(<<Obj(<<"b">>, <<Leaf(1)>>), Leaf(2)>>)>>)

Structures1 ==
  TreesUpTo(MaxNodes, {Leaf(1), Leaf(2), Group(2)}) \cup {PartialExample, DeepExample}
Structures2 ==
  {Arr(<<Leaf(1), Leaf(2)>>), Obj(<<"b">>, <<Arr(<<Leaf(2)>>)>>), Obj(<< >>, << >>)}

\* Leaf states a run of resets, confirms and user input can leave: each leaf
\* with any confirmed value and any input value, the two leaves apart.
LeafStates ==
  { [l \in Leaves |-> [value |-> (a + l) % (MaxVal + 1),
                       inputValue |-> (b + l) % (MaxVal + 1)]] : a \in Values, b \in Values }

\* The state after the constructors: nothing flattened yet, no call made.
Constructed ==
  /\ privateInputGroup = [l \in Leaves |-> {}]
  /\ lastFlat = [g \in Groups |-> Undef]
  /\ op = NoOp
  /\ ret = Undef
  /\ log = << >>
  /\ outcome = "ok"
  /\ advanced = FALSE

Init ==
  /\ \E t1 \in Structures1, t2 \in Structures2 :
       /\ _inputs = <<Function, Constant(t2)>>
       /\ source = <<t1, Undef>>
  /\ leaf \in LeafStates
  /\ Constructed

Next ==
  /\ op.name = "none"
  /\ \E g \in Groups :
    \/ GetStructure(g)
    \/ GetInputs(g)
    \/ GetValue(g)
    \/ GetInputValue(g)
    \/ GetNormalizedInputValue(g)
    \/ GetFlattedInputs(g)
    \/ GetFlattenedStructure(g)
    \/ \E v \in InferInputGroupValue(g), bad \in Failing : Reset(g, v, bad)
    \/ \E v \in InferInputGroupValue(g), bad \in Failing : Confirm(g, v, bad)

Spec == Init /\ [][Next]_vars

(***************************************************************************)
(* SpecReshape: the descriptions' data changes between calls that read the *)
(* derived views.  A description is a function or a constant, as the       *)
(* constructor was given it.                                               *)
(***************************************************************************)
Shapes(g) ==
  IF g = 1
  THEN {Group(2), Arr(<<Leaf(1), Group(2)>>), Obj(<<"a", "b">>, <<Group(2), Leaf(2)>>),
        Obj(<<"a">>, <<Arr(<<Group(2)>>)>>), Arr(<<Leaf(1), Leaf(1)>>), PartialExample,
        Obj(<< >>, << >>), Leaf(2)}
  ELSE {Arr(<<Leaf(1), Leaf(2)>>), Obj(<<"b">>, <<Arr(<<Leaf(2)>>)>>), Arr(<< >>)}

InitReshape ==
  /\ _inputs \in [Groups -> {Function} \cup {Constant(InitShape(g)) : g \in Groups}]
  /\ \A g \in Groups : ~_inputs[g].fn => _inputs[g].tree = InitShape(g)
  /\ source = [g \in Groups |-> IF _inputs[g].fn THEN InitShape(g) ELSE Undef]
  /\ leaf = [l \in Leaves |-> [value |-> Default(l), inputValue |-> Default(l)]]
  /\ Constructed

NextReshape ==
  \/ \E g \in Groups :
       \/ GetStructure(g)
       \/ GetInputs(g)
       \/ GetValue(g)
       \/ GetInputValue(g)
       \/ GetNormalizedInputValue(g)
       \/ GetFlattedInputs(g)
       \/ GetFlattenedStructure(g)
       \/ \E t \in Shapes(g) : Reshape(g, t)
  \/ Return

SpecReshape == InitReshape /\ [][NextReshape]_vars

(***************************************************************************)
(* Properties.  What they are stated with is defined here from the         *)
(* descriptions' data and the arguments, by paths, not from the walks'     *)
(* code: a path is a sequence of steps, a step an object key or the        *)
(* position of an array element.                                           *)
(***************************************************************************)
KeyStep(key) == [key |-> key, idx |-> 0]
IdxStep(i) == [key |-> "", idx |-> i]
StepOf(n, i) == IF n.k = "seq" THEN IdxStep(i) ELSE KeyStep(n.keys[i])

\* The tree a group's description gives now.
Snapshot(g) == IF _inputs[g].fn THEN source[g] ELSE _inputs[g].tree

\* The child of a node one step down, undefined when it has none there.
Child(n, st) ==
  IF st.idx > 0
  THEN IF n.k = "seq" /\ st.idx <= Len(n.kids) THEN n.kids[st.idx] ELSE Undef
  ELSE IF n.k = "map" /\ \E i \in 1 .. Len(n.keys) : n.keys[i] = st.key
       THEN n.kids[CHOOSE i \in 1 .. Len(n.keys) : n.keys[i] = st.key]
       ELSE Undef

RECURSIVE Resolve(_)
\* A nested group stands for the tree of its own description.
Resolve(n) == IF n.k = "group" THEN Resolve(Snapshot(n.id)) ELSE n

RECURSIVE NodeAt(_, _)
\* The node at a path, nested groups transparent.
NodeAt(n, p) ==
  LET m == Resolve(n)
  IN  IF p = << >> THEN m ELSE NodeAt(Child(m, Head(p)), Tail(p))

RECURSIVE PathsIn(_)
\* The paths of a tree, nested groups transparent.
PathsIn(n) ==
  LET m == Resolve(n)
  IN  {<< >>} \cup UNION { { <<StepOf(m, i)>> \o p : p \in PathsIn(m.kids[i]) } :
                             i \in 1 .. Len(m.kids) }

LeafPaths(n) == { p \in PathsIn(n) : NodeAt(n, p).k = "leaf" }

RECURSIVE PlainAt(_, _)
\* The node at a path through arrays and objects only.
PlainAt(n, p) == IF p = << >> THEN n ELSE PlainAt(Child(n, Head(p)), Tail(p))

RECURSIVE PlainPaths(_)
\* The paths through arrays and objects only: a nested group is an end.
PlainPaths(n) ==
  {<< >>} \cup UNION { { <<StepOf(n, i)>> \o p : p \in PlainPaths(n.kids[i]) } :
                         i \in 1 .. Len(n.kids) }

ItemPaths(n) == { p \in PlainPaths(n) : PlainAt(n, p).k \in {"leaf", "group"} }

\* The sub-value at a path of a value tree: undefined as soon as a key or an
\* index of the path is missing.
SubValue(v, p) == PlainAt(v, p)

Count(s, x) == Cardinality({ i \in DOMAIN s : s[i] = x })

Modes == {"value", "inputValue", "normalizedInputValue"}
Views == Modes \cup {"structure", "inputs", "flattedInputs", "flattenedStructure"}
Batches == {"reset", "confirm"}

\* The leaf call a batch owes the occurrence at path p.
CallOwed(p) ==
  [fn |-> op.name, leaf |-> NodeAt(Snapshot(op.g), p).id, value |-> SubValue(op.arg, p),
   next |-> FALSE]

C2_FlattedInputsAreReachableLeaves ==
  op.name = "flattedInputs" =>
    /\ ret.k = "seq"
    /\ Range(ret.kids) =
         { NodeAt(Snapshot(op.g), p) : p \in LeafPaths(Snapshot(op.g)) }

\* A function-valued description has changed since construction, and the read
\* returns the leaves of the new tree, which are not those of the old one.
C2_Witness ==
  /\ op.name = "flattedInputs"
  /\ _inputs[op.g].fn
  /\ source[op.g] # InitShape(op.g)
  /\ Range(ret.kids) # { NodeAt(InitShape(op.g), p) : p \in LeafPaths(InitShape(op.g)) }
  /\ Range(ret.kids) # {}

\* C3: in each mode the aggregate mirrors the collapsed inputs: a leaf's place
\* holds the leaf's attribute of the mode, an array gives an array of the same
\* length, an object an object of the same keys, empty ones included.
C3_AggregateMirrorsInputs ==
  op.name \in Modes =>
    \A p \in PathsIn(Snapshot(op.g)) :
      LET n == NodeAt(Snapshot(op.g), p)
          r == SubValue(ret, p)
      IN  /\ n.k = "leaf" =>
               r = Atom(CASE op.name = "value" -> leaf[n.id].value
                          [] op.name = "inputValue" -> leaf[n.id].inputValue
                          [] OTHER -> Normalize(leaf[n.id].inputValue))
          /\ n.k = "seq" => r.k = "seq" /\ Len(r.kids) = Len(n.kids)
          /\ n.k = "map" => r.k = "map" /\ r.keys = n.keys

\* inputValue read through a nested group, where it differs from value.
C3_Witness ==
  /\ op.name = "inputValue"
  /\ op.g = 1
  /\ Snapshot(1) = Obj(<<"a">>, <<Arr(<<Group(2)>>)>>)
  /\ Snapshot(2) = Arr(<<Leaf(1), Leaf(2)>>)
  /\ ret = Obj(<<"a">>, <<Arr(<<Arr(<<Atom(1), Atom(0)>>)>>)>>)
  /\ ret # value(1)

\* C4: a reset that no leaf fails ends normally, and the leaf at each path is
\* reset with the sub-value at that path: undefined (no value) when the value
\* is absent or a key or index of the path is missing.
C4_ResetInLockStep ==
  (op.name = "reset" /\ op.bad = {}) =>
    /\ outcome = "ok"
    /\ \A p \in LeafPaths(Snapshot(op.g)) : \E i \in DOMAIN log : log[i] = CallOwed(p)

\* reset({ value: { b: { a: 1 } } }) over { a: input1, b: { a: input2 } }.
C4_Witness ==
  /\ op.name = "reset"
  /\ Snapshot(op.g) = PartialExample
  /\ op.arg = Obj(<<"b">>, <<Obj(<<"a">>, <<Atom(1)>>)>>)
  /\ log = <<ResetCall(1, Undef), ResetCall(2, Atom(1))>>
  /\ leaf[1].value = Default(1)
  /\ leaf[2].value = 1
  /\ Default(2) # 1

\* C5: a group confirm never moves the focus: every leaf it reaches is
\* confirmed without the advance-to-next option and with the sub-value at the
\* leaf's path.
C5_ConfirmNeverAdvances ==
  op.name = "confirm" =>
    /\ ~advanced
    /\ \A i \in DOMAIN log :
         /\ log[i].fn = "confirm"
         /\ ~log[i].next
         /\ \E p \in LeafPaths(Snapshot(op.g)) : log[i] = CallOwed(p)
    /\ outcome = "ok" =>
         \A p \in LeafPaths(Snapshot(op.g)) : \E i \in DOMAIN log : log[i] = CallOwed(p)

\* A confirm through a nested group, two containers down in it.
C5_Witness ==
  /\ op.name = "confirm"
  /\ op.g = 1
  /\ Snapshot(1) = Group(2)
  /\ Snapshot(2) = Obj(<<"b">>, <<Arr(<<Leaf(2)>>)>>)
  /\ op.arg = Obj(<<"b">>, <<Arr(<<Atom(1)>>)>>)
  /\ log = <<ConfirmCall(2, Atom(1))>>
  /\ leaf[2].inputValue = 1

\* C6: flattenedStructure lists the leaf and group occurrences reached through
\* arrays and objects only, a nested group as one element; flattedInputs lists
\* leaves only, one per occurrence with nested groups transparent.
C6_FlattenedStructureKeepsGroups ==
  /\ op.name = "flattenedStructure" =>
       /\ ret.k = "seq"
       /\ Len(ret.kids) = Cardinality(ItemPaths(Snapshot(op.g)))
       /\ Range(ret.kids) = { PlainAt(Snapshot(op.g), p) : p \in ItemPaths(Snapshot(op.g)) }
  /\ op.name = "flattedInputs" =>
       /\ Len(ret.kids) = Cardinality(LeafPaths(Snapshot(op.g)))
       /\ \A i \in DOMAIN ret.kids : ret.kids[i].k = "leaf"

\* A group holding one nested group that wraps two leaves.
C6_Witness ==
  /\ op.name = "flattenedStructure"
  /\ Snapshot(op.g) = Arr(<<Group(2)>>)
  /\ Snapshot(2) = Arr(<<Leaf(1), Leaf(2)>>)
  /\ ret = Arr(<<Group(2)>>)
  /\ Len(flattedInputs(op.g).kids) = 2

\* C7: a call that reads a derived view leaves every leaf as it was; a call
\* that changes a leaf is a reset or a confirm, and it made a call to that leaf.
C7_ReadsLeaveLeavesAlone ==
  [][/\ op'.name \in Views => leaf' = leaf
     /\ \A l \in Leaves :
          leaf'[l] # leaf[l] =>
            /\ op'.name \in Batches
            /\ \E i \in DOMAIN log' : log'[i].leaf = l]_vars

\* A view was read on a group whose leaves are not at their defaults.
C7_Witness ==
  /\ op.name = "normalizedInputValue"
  /\ \A l \in Leaves : leaf[l].inputValue # Default(l)
  /\ Len(flattedInputs(op.g).kids) = 2

RECURSIVE PerLeaf(_, _, _)
\* A leaf's state after the calls made to it.
PerLeaf(st, l, calls) ==
  IF calls = << >> THEN st
  ELSE PerLeaf(IF Head(calls).leaf = l THEN LeafApply(st, Head(calls)) ELSE st, l, Tail(calls))

\* C8: when a leaf's operation throws in a batch, the batch ends with the
\* exception at that call: the calls before it were made and their leaves keep
\* the new state, no later call is made.
C8_FailureAbortsBatch ==
  [][(op.name = "none" /\ op'.name \in Batches) =>
       LET full == IF op'.name = "reset" THEN resetShape(structure(op'.g), op'.arg)
                   ELSE confirmShape(structure(op'.g), op'.arg)
           thrown == { i \in DOMAIN full : full[i].leaf \in op'.bad }
       IN  IF thrown = {}
           THEN /\ outcome' = "ok"
                /\ log' = full
           ELSE LET k == CHOOSE i \in thrown : \A j \in thrown : i <= j
                IN  /\ outcome' = "threw"
                    /\ log' = SubSeq(full, 1, k)
                    /\ \A l \in Leaves :
                         leaf'[l] = PerLeaf(leaf[l], l, SubSeq(full, 1, k - 1))]_vars

\* The second of two leaves threw: the first was reset, the second was not.
C8_Witness ==
  /\ op.name = "reset"
  /\ outcome = "threw"
  /\ Snapshot(op.g) = Arr(<<Leaf(1), Leaf(2)>>)
  /\ op.arg = Arr(<<Atom(0), Atom(1)>>)
  /\ op.bad = {2}
  /\ Len(log) = 2
  /\ leaf[1] = [value |-> 0, inputValue |-> 0]
  /\ leaf[2].value # 1

\* C9: after reset() with no value, the value read has each leaf's default at
\* every leaf position, whatever the leaves held before.
C9_ResetRoundTrip ==
  (op.name = "reset" /\ op.arg = Undef /\ outcome = "ok") =>
    \A p \in LeafPaths(Snapshot(op.g)) :
      SubValue(value(op.g), p) = Atom(Default(NodeAt(Snapshot(op.g), p).id))

\* Three containers deep, from leaves that held other values.
C9_Witness ==
  /\ op.name = "reset"
  /\ op.arg = Undef
  /\ outcome = "ok"
  /\ Snapshot(op.g) = DeepExample
  /\ value(op.g) = Obj(<<"a">>, <<Arr(<<Obj(<<"b">>, <<Atom(Default(1))>>), Atom(Default(2))>>)>>)
  /\ \A l \in Leaves : leaf[l].inputValue = Default(l)

\* C10: the calls of a batch follow the node tree alone: one call per leaf
\* occurrence, each with the sub-value of its own position; what the value has
\* beyond the node tree causes no call.
C10_OneCallPerOccurrence ==
  (op.name \in Batches /\ outcome = "ok") =>
    LET paths == LeafPaths(Snapshot(op.g))
    IN  /\ Len(log) = Cardinality(paths)
        /\ \A p \in paths :
             Count(log, CallOwed(p)) = Cardinality({ q \in paths : CallOwed(q) = CallOwed(p) })

\* One leaf at two positions, each given its own sub-value.
C10_Witness ==
  /\ op.name = "confirm"
  /\ Snapshot(op.g) = Arr(<<Leaf(1), Leaf(1)>>)
  /\ op.arg = Arr(<<Atom(1), Atom(0)>>)
  /\ log = <<ConfirmCall(1, Atom(1)), ConfirmCall(1, Atom(0))>>
  /\ leaf[1].inputValue = 0
=============================================================================
